---- MODULE Spec2Model ----
(***************************************************************************)
(* Model of src/main.py: an event-management CRUD backend over a document  *)
(* store (events, attendees, venues, bookings, multimedia_files), with its *)
(* identifier codec, input sanitizer, allowlist filter and identifier      *)
(* stringification.                                                        *)
(*                                                                         *)
(* Python values are modelled as tagged records [t |-> tag, v |-> payload]:*)
(*   "str"   v = sequence of symbols: single characters, or a literal of   *)
(*           the program without "$" written as one symbol                 *)
(*   "int"   v = integer                                                   *)
(*   "none"  v = 0                                                         *)
(*   "bytes" v = sequence of characters (the bytes of a payload)           *)
(*   "datetime" v = 0 (one abstract instant)                               *)
(*   "oid"   v = sequence of OID_HEX_LEN nibbles (a bson ObjectId)         *)
(*   "dict"  v = function from key (a TLA+ string) to value                *)
(*   "list"  v = sequence of values                                        *)
(* HTTPException is modelled by its status code; message and detail texts  *)
(* are not modelled.                                                       *)
(***************************************************************************)
EXTENDS Integers, Sequences, FiniteSets, TLC

VARIABLES
    db,        \* the store: collection name -> documents in natural order
    counter,   \* identifiers the driver has generated
    req,       \* the request served last
    resp,      \* its response
    issued,    \* per collection, the identifiers returned by a successful create
               \* or upload and not since deleted successfully
    uploaded,  \* the uploads that succeeded: identifier returned, category, file
    call       \* a direct call of a helper function: its input, the argument
               \* object after the call, the result

vars == <<db, counter, req, resp, issued, uploaded, call>>

-----------------------------------------------------------------------------
(* Values *)

Str(s) == [t |-> "str", v |-> s]
Num(n) == [t |-> "int", v |-> n]
None == [t |-> "none", v |-> 0]
Bytes(b) == [t |-> "bytes", v |-> b]
Datetime(n) == [t |-> "datetime", v |-> n]
ObjectId(nibbles) == [t |-> "oid", v |-> nibbles]
Dict(f) == [t |-> "dict", v |-> f]
List(s) == [t |-> "list", v |-> s]

EmptyMap == [k \in {} |-> None]

\* dict | {k: v}
Put(f, k, val) == [x \in DOMAIN f \cup {k} |-> IF x = k THEN val ELSE f[x]]

\* dict restricted to a set of keys
Restrict(f, keys) == [x \in DOMAIN f \cap keys |-> f[x]]

\* {**f, **g}
Merge(f, g) == [x \in DOMAIN f \cup DOMAIN g |-> IF x \in DOMAIN g THEN g[x] ELSE f[x]]

Min(a, b) == IF a < b THEN a ELSE b

-----------------------------------------------------------------------------
(* Identifier codec: bson.ObjectId and parse_object_id *)

\* The hexadecimal digits of an identifier. A bson ObjectId has 24 (12 bytes);
\* the model's identifiers are narrower, which no handler can observe: the
\* codec treats every digit alike.
OID_HEX_LEN == 4

HexLower == <<"0","1","2","3","4","5","6","7","8","9","a","b","c","d","e","f">>
HexUpper == <<"0","1","2","3","4","5","6","7","8","9","A","B","C","D","E","F">>

IsHexChar(c) == \E i \in 1..16 : HexLower[i] = c \/ HexUpper[i] = c

HexVal(c) == (CHOOSE i \in 1..16 : HexLower[i] = c \/ HexUpper[i] = c) - 1

\* ObjectId.is_valid(id_str) for a str: OID_HEX_LEN hexadecimal digits
is_valid(id_str) ==
    /\ id_str.t = "str"
    /\ Len(id_str.v) = OID_HEX_LEN
    /\ \A i \in 1..Len(id_str.v) : IsHexChar(id_str.v[i])

\* ObjectId(id_str): the bytes the digits denote
FromHex(id_str) == ObjectId([i \in 1..Len(id_str.v) |-> HexVal(id_str.v[i])])

\* str(ObjectId): lower-case hexadecimal
StrOfOid(oid) == Str([i \in 1..Len(oid.v) |-> HexLower[oid.v[i] + 1]])

\* parse_object_id: [status |-> 0, oid] or [status |-> 400]
parse_object_id(id_str) ==
    IF is_valid(id_str)
    THEN [status |-> 0, oid |-> FromHex(id_str)]
    ELSE [status |-> 400, oid |-> None]

RECURSIVE Nibbles(_, _)
Nibbles(n, len) ==
    IF len = 0 THEN <<>> ELSE Append(Nibbles(n \div 16, len - 1), n % 16)

\* The n-th identifier the driver generates (insert_one assigns a fresh _id)
NewObjectId(n) == ObjectId(Nibbles(n, OID_HEX_LEN))

-----------------------------------------------------------------------------
(* string_ids *)

RECURSIVE string_ids_broken(_)
string_ids_broken(doc) ==
    IF doc.t = "list"
    THEN List([i \in DOMAIN doc.v |-> string_ids_broken(doc.v[i])])
    ELSE IF doc.t = "dict"
    THEN Dict([k \in DOMAIN doc.v |->
                 IF doc.v[k].t \in {"dict", "list"}
                 THEN string_ids_broken(doc.v[k])
                 ELSE doc.v[k]])
    ELSE doc

RECURSIVE string_ids(_)
string_ids(doc) ==
    IF doc.t = "list"
    THEN List([i \in DOMAIN doc.v |-> string_ids(doc.v[i])])
    ELSE IF doc.t = "dict"
    THEN Dict([k \in DOMAIN doc.v |->
                 IF doc.v[k].t = "oid"
                 THEN StrOfOid(doc.v[k])
                 ELSE IF doc.v[k].t \in {"dict", "list"}
                 THEN string_ids(doc.v[k])
                 ELSE doc.v[k]])
    ELSE doc

-----------------------------------------------------------------------------
(* clean_input and safe_update_fields *)

HasDollar(s) == \E i \in 1..Len(s) : s[i] = "$"

\* Mutant: only a leading '$' is rejected.
clean_input_prefix_only(data) ==
    [status |-> IF \E k \in DOMAIN data.v :
                      \/ data.v[k].t = "dict"
                      \/ (data.v[k].t = "str" /\ Len(data.v[k].v) > 0
                            /\ data.v[k].v[1] = "$")
                THEN 400 ELSE 0,
     data |-> data]

\* Mutant: strings are not scanned.
clean_input_dict_only(data) ==
    [status |-> IF \E k \in DOMAIN data.v : data.v[k].t = "dict" THEN 400 ELSE 0,
     data |-> data]

\* Returns the status raised (0: returned normally) and the argument mapping
\* as it is after the call.
clean_input(data) ==
    [status |-> IF \E k \in DOMAIN data.v :
                      \/ data.v[k].t = "dict"
                      \/ (data.v[k].t = "str" /\ HasDollar(data.v[k].v))
                THEN 400 ELSE 0,
     data |-> data]

\* Mutant: the filter is skipped.
safe_update_fields_unfiltered(data, allowed_fields) ==
    LET c == clean_input(data)
    IN  [status |-> c.status, ret |-> c.data, data |-> data]

\* Returns the status raised (0: returned normally), the mapping returned and
\* the argument mapping as it is after the call.
safe_update_fields(data, allowed_fields) ==
    LET filtered == Dict(Restrict(data.v, allowed_fields))
        c == clean_input(filtered)
    IN  [status |-> c.status, ret |-> c.data, data |-> data]

-----------------------------------------------------------------------------
(* Request models and allowlists *)

\* pydantic models: the declared fields and those without a default
Event == [fields |-> {"name", "description", "date", "venue_id", "max_attendees"},
          required |-> {"name", "description", "date", "venue_id", "max_attendees"}]

Attendee == [fields |-> {"name", "email", "phone"},
             required |-> {"name", "email"}]

Venue == [fields |-> {"name", "address", "capacity"},
          required |-> {"name", "address", "capacity"}]

Booking == [fields |-> {"event_id", "attendee_id", "ticket_type", "quantity"},
            required |-> {"event_id", "attendee_id", "ticket_type", "quantity"}]

EVENT_ALLOWED == {"name", "description", "date", "venue_id", "max_attendees"}
ATTENDEE_ALLOWED == {"name", "email", "phone"}
VENUE_ALLOWED == {"name", "address", "capacity"}
BOOKING_ALLOWED == {"event_id", "attendee_id", "ticket_type", "quantity"}

\* The framework's parse of a JSON body into a model followed by .dict():
\* a missing required field is a 422; unknown fields are ignored; a field
\* left out of the body takes its default (None).
ModelDict(model, body) ==
    IF ~(model.required \subseteq DOMAIN body.v)
    THEN [status |-> 422, dict |-> None]
    ELSE [status |-> 0,
          dict |-> Dict([k \in model.fields |->
                           IF k \in DOMAIN body.v THEN body.v[k] ELSE None])]

-----------------------------------------------------------------------------
(* The document store: each collection is the sequence of its documents in *)
(* natural (insertion) order.                                              *)

Collections == {"events", "attendees", "venues", "bookings", "multimedia_files"}

\* An equality filter {field: value, ...}
Matches(doc, filter) ==
    \A k \in DOMAIN filter : k \in DOMAIN doc.v /\ doc.v[k] = filter[k]

FirstMatch(coll, filter) ==
    IF \E i \in 1..Len(coll) : Matches(coll[i], filter)
    THEN CHOOSE i \in 1..Len(coll) :
            /\ Matches(coll[i], filter)
            /\ \A j \in 1..(i - 1) : ~Matches(coll[j], filter)
    ELSE 0

RemoveAt(coll, i) == SubSeq(coll, 1, i - 1) \o SubSeq(coll, i + 1, Len(coll))

\* collection.insert_one(doc): the driver gives the document a fresh _id
insert_one(coll, doc, n) ==
    [coll |-> Append(coll, Dict(Put(doc.v, "_id", NewObjectId(n)))),
     inserted_id |-> NewObjectId(n)]

\* Mutant: an update of an absent record inserts it (upsert).
update_one_upsert(coll, filter, set) ==
    LET i == FirstMatch(coll, filter)
    IN  IF i = 0
        THEN [coll |-> Append(coll, Dict(Merge(filter, set.v))), matched_count |-> 0]
        ELSE [coll |-> [coll EXCEPT ![i] = Dict(Merge(coll[i].v, set.v))],
              matched_count |-> 1]

\* collection.update_one(filter, {"$set": set})
update_one(coll, filter, set) ==
    LET i == FirstMatch(coll, filter)
    IN  IF i = 0
        THEN [coll |-> coll, matched_count |-> 0]
        ELSE [coll |-> [coll EXCEPT ![i] = Dict(Merge(coll[i].v, set.v))],
              matched_count |-> 1]

\* collection.delete_one(filter)
delete_one(coll, filter) ==
    LET i == FirstMatch(coll, filter)
    IN  IF i = 0
        THEN [coll |-> coll, deleted_count |-> 0]
        ELSE [coll |-> RemoveAt(coll, i), deleted_count |-> 1]

\* Mutant: the lookup ignores every filter field but _id.
find_one_by_id_only(coll, filter) ==
    LET i == FirstMatch(coll, Restrict(filter, {"_id"}))
    IN  IF i = 0 THEN None ELSE coll[i]

\* collection.find_one(filter): the first matching document, or None
find_one(coll, filter) ==
    LET i == FirstMatch(coll, filter)
    IN  IF i = 0 THEN None ELSE coll[i]

\* collection.find().to_list(length)
find_to_list(coll, length) == List(SubSeq(coll, 1, Min(Len(coll), length)))

\* The fetch cap of every list endpoint
LIST_CAP == 100

-----------------------------------------------------------------------------
(* Requests and responses *)

Lit(s) == Str(<<s>>)

Request(method, route, id, body) ==
    [method |-> method, route |-> route, id |-> id, body |-> body]

Response(status, body, headers) ==
    [status |-> status, body |-> body, headers |-> headers]

HTTPException(status) == Response(status, None, EmptyMap)

\* datetime.utcnow(): one abstract instant
utcnow == Datetime(0)

-----------------------------------------------------------------------------
(* Entity CRUD handlers, one shape for the four entity kinds *)

\* POST /<coll>
HandleCreate(coll, model, body) ==
    LET m == ModelDict(model, body)
        c == clean_input(m.dict)
        r == insert_one(db[coll], c.data, counter + 1)
    IN  /\ req' = Request("POST", coll, None, body)
        /\ IF m.status # 0
           THEN /\ resp' = HTTPException(m.status)
                /\ UNCHANGED <<db, counter, issued>>
           ELSE IF c.status # 0
           THEN /\ resp' = HTTPException(c.status)
                /\ UNCHANGED <<db, counter, issued>>
           ELSE /\ db' = [db EXCEPT ![coll] = r.coll]
                /\ counter' = counter + 1
                /\ resp' = Response(200, Dict([id |-> StrOfOid(r.inserted_id)]), EmptyMap)
                /\ issued' = [issued EXCEPT ![coll] = @ \cup {StrOfOid(r.inserted_id)}]
        /\ UNCHANGED <<uploaded, call>>

\* GET /<coll>
HandleList(coll) ==
    /\ req' = Request("GET", coll, None, None)
    /\ resp' = Response(200, string_ids(find_to_list(db[coll], LIST_CAP)), EmptyMap)
    /\ UNCHANGED <<db, counter, issued, uploaded, call>>

\* PUT /<coll>/{id}
HandleUpdate(coll, model, allowed, id, body) ==
    LET m == ModelDict(model, body)
        p == parse_object_id(id)
        s == safe_update_fields(m.dict, allowed)
        r == update_one(db[coll], [_id |-> p.oid], s.ret)
    IN  /\ req' = Request("PUT", coll, id, body)
        /\ IF m.status # 0
           THEN resp' = HTTPException(m.status) /\ UNCHANGED db
           ELSE IF p.status # 0
           THEN resp' = HTTPException(p.status) /\ UNCHANGED db
           ELSE IF s.status # 0
           THEN resp' = HTTPException(s.status) /\ UNCHANGED db
           ELSE /\ db' = [db EXCEPT ![coll] = r.coll]
                /\ resp' = IF r.matched_count = 0
                           THEN HTTPException(404)
                           ELSE Response(200, None, EmptyMap)
        /\ UNCHANGED <<counter, issued, uploaded, call>>

\* DELETE /<coll>/{id}
HandleDelete(coll, id) ==
    LET p == parse_object_id(id)
        r == delete_one(db[coll], [_id |-> p.oid])
    IN  /\ req' = Request("DELETE", coll, id, None)
        /\ IF p.status # 0
           THEN resp' = HTTPException(p.status) /\ UNCHANGED <<db, issued>>
           ELSE /\ db' = [db EXCEPT ![coll] = r.coll]
                /\ IF r.deleted_count = 0
                   THEN resp' = HTTPException(404) /\ UNCHANGED issued
                   ELSE /\ resp' = Response(200, None, EmptyMap)
                        /\ issued' = [issued EXCEPT ![coll] = @ \ {StrOfOid(p.oid)}]
        /\ UNCHANGED <<counter, uploaded, call>>

\* Mutant: the update writes the request body as received, not the filtered
\* fields of the model.
update_booking_raw(booking_id, booking) ==
    LET p == parse_object_id(booking_id)
        c == clean_input(booking)
        r == update_one(db.bookings, [_id |-> p.oid], c.data)
    IN  /\ req' = Request("PUT", "bookings", booking_id, booking)
        /\ IF p.status # 0
           THEN resp' = HTTPException(p.status) /\ UNCHANGED db
           ELSE IF c.status # 0
           THEN resp' = HTTPException(c.status) /\ UNCHANGED db
           ELSE /\ db' = [db EXCEPT !.bookings = r.coll]
                /\ resp' = IF r.matched_count = 0
                           THEN HTTPException(404)
                           ELSE Response(200, None, EmptyMap)
        /\ UNCHANGED <<counter, issued, uploaded, call>>

\* Mutant: deleting an event also deletes the bookings that refer to it.
delete_event_cascade(event_id) ==
    LET p == parse_object_id(event_id)
        r == delete_one(db.events, [_id |-> p.oid])
        kept == SelectSeq(db.bookings, LAMBDA b : b.v.event_id # event_id)
    IN  /\ req' = Request("DELETE", "events", event_id, None)
        /\ IF p.status # 0
           THEN resp' = HTTPException(p.status) /\ UNCHANGED <<db, issued>>
           ELSE /\ db' = [db EXCEPT !.events = r.coll, !.bookings = kept]
                /\ IF r.deleted_count = 0
                   THEN resp' = HTTPException(404) /\ UNCHANGED issued
                   ELSE /\ resp' = Response(200, None, EmptyMap)
                        /\ issued' = [issued EXCEPT !.events = @ \ {StrOfOid(p.oid)}]
        /\ UNCHANGED <<counter, uploaded, call>>

create_event(event) == HandleCreate("events", Event, event)
get_events == HandleList("events")
update_event(event_id, event) == HandleUpdate("events", Event, EVENT_ALLOWED, event_id, event)
delete_event(event_id) == HandleDelete("events", event_id)

create_attendee(attendee) == HandleCreate("attendees", Attendee, attendee)
get_attendees == HandleList("attendees")
update_attendee(attendee_id, attendee) ==
    HandleUpdate("attendees", Attendee, ATTENDEE_ALLOWED, attendee_id, attendee)
delete_attendee(attendee_id) == HandleDelete("attendees", attendee_id)

create_venue(venue) == HandleCreate("venues", Venue, venue)
get_venues == HandleList("venues")
update_venue(venue_id, venue) == HandleUpdate("venues", Venue, VENUE_ALLOWED, venue_id, venue)
delete_venue(venue_id) == HandleDelete("venues", venue_id)

create_booking(booking) == HandleCreate("bookings", Booking, booking)
get_bookings == HandleList("bookings")
update_booking(booking_id, booking) ==
    HandleUpdate("bookings", Booking, BOOKING_ALLOWED, booking_id, booking)
delete_booking(booking_id) == HandleDelete("bookings", booking_id)

-----------------------------------------------------------------------------
(* Media attachment handlers *)

\* POST /upload_<media_type>/{owner_id}; file = [filename, content_type, content]
HandleUpload(route, owner_key, media_type, owner_id, file) ==
    LET doc == Dict(Put([filename |-> file.filename,
                         content_type |-> file.content_type,
                         content |-> file.content,
                         media_type |-> Lit(media_type),
                         uploaded_at |-> utcnow], owner_key, owner_id))
        c == clean_input(doc)
        r == insert_one(db.multimedia_files, c.data, counter + 1)
    IN  /\ req' = Request("POST", route, owner_id, Dict(file))
        /\ IF c.status # 0
           THEN /\ resp' = HTTPException(c.status)
                /\ UNCHANGED <<db, counter, issued, uploaded>>
           ELSE /\ db' = [db EXCEPT !.multimedia_files = r.coll]
                /\ counter' = counter + 1
                /\ resp' = Response(200, Dict([id |-> StrOfOid(r.inserted_id)]), EmptyMap)
                /\ issued' = [issued EXCEPT !.multimedia_files = @ \cup {StrOfOid(r.inserted_id)}]
                /\ uploaded' = uploaded \cup {[id |-> StrOfOid(r.inserted_id),
                                                media_type |-> media_type, file |-> file]}
        /\ UNCHANGED call

\* GET /download_<media_type>/{id}
HandleDownload(route, media_type, id) ==
    LET p == parse_object_id(id)
        f == find_one(db.multimedia_files, [_id |-> p.oid, media_type |-> Lit(media_type)])
    IN  /\ req' = Request("GET", route, id, None)
        /\ IF p.status # 0
           THEN resp' = HTTPException(p.status)
           ELSE IF f = None
           THEN resp' = HTTPException(404)
           ELSE resp' = Response(200, f.v.content,
                                 [content_type |-> f.v.content_type,
                                  content_disposition |->
                                      Str(<<"attachment; filename=">> \o f.v.filename.v)])
        /\ UNCHANGED <<db, counter, issued, uploaded, call>>

upload_event_poster(event_id, file) ==
    HandleUpload("upload_event_poster", "event_id", "event_poster", event_id, file)
download_event_poster(poster_id) ==
    HandleDownload("download_event_poster", "event_poster", poster_id)

upload_promo_video(event_id, file) ==
    HandleUpload("upload_promo_video", "event_id", "promo_video", event_id, file)
download_promo_video(video_id) ==
    HandleDownload("download_promo_video", "promo_video", video_id)

upload_venue_photo(venue_id, file) ==
    HandleUpload("upload_venue_photo", "venue_id", "venue_photo", venue_id, file)
download_venue_photo(photo_id) ==
    HandleDownload("download_venue_photo", "venue_photo", photo_id)

-----------------------------------------------------------------------------
(* The requests the clients send *)

\* Inserts per run
MaxOid == 2

IdStr(n) == StrOfOid(NewObjectId(n))

\* Well-formed identifiers (assigned or not yet assigned) and a malformed one
PathIds == {IdStr(n) : n \in 1..MaxOid} \cup {Str(<<"a", "b", "c">>)}

Dollar == Str(<<"$", "n", "e">>)

E1 == [name |-> Str(<<"a">>), description |-> Str(<<"d">>), date |-> Str(<<"x">>),
       venue_id |-> IdStr(1), max_attendees |-> Num(1)]

EventCreateBodies == {Dict(E1), Dict([E1 EXCEPT !.name = Dollar])}

\* a renamed event; a reserved name; the reserved name and nothing else
EventBodies ==
    { Dict([E1 EXCEPT !.name = Str(<<"b">>)]),
      Dict([E1 EXCEPT !.name = Dollar]),
      Dict([name |-> Dollar]) }

A1 == [name |-> Str(<<"a">>), email |-> Str(<<"e">>), phone |-> Str(<<"1">>)]

\* with a phone; without the required email
AttendeeCreateBodies == {Dict(A1), Dict(Restrict(A1, {"name", "phone"}))}

\* without the optional phone
AttendeeBodies == {Dict(Restrict(A1, {"name", "email"}))}

V1 == [name |-> Str(<<"a">>), address |-> Str(<<"s">>), capacity |-> Num(1)]

VenueCreateBodies == {Dict(V1)}

VenueBodies == {Dict([V1 EXCEPT !.capacity = Num(2)])}

B1 == [event_id |-> IdStr(1), attendee_id |-> IdStr(2), ticket_type |-> Str(<<"v">>),
       quantity |-> Num(1)]

BookingCreateBodies == {Dict(B1), Dict([B1 EXCEPT !.ticket_type = Dollar])}

\* with an _id field, which the Booking model does not declare
BookingBodies == {Dict(Put([B1 EXCEPT !.quantity = Num(2)], "_id", IdStr(1)))}

F1 == [filename |-> Str(<<"p", ".", "png">>), content_type |-> Lit("image/png"),
       content |-> Bytes(<<"1", "$">>)]

F2 == [filename |-> Str(<<"v", ".", "mp4">>), content_type |-> Lit("video/mp4"),
       content |-> Bytes(<<"2">>)]

\* The owner of an upload is any string: an identifier, a reserved one
OwnerIds == {IdStr(1), Str(<<"$", "x">>)}

-----------------------------------------------------------------------------
(* The service *)

NoCall == [fn |-> "none", pc |-> "done", input |-> None, arg |-> None, allowed |-> {},
           ret |-> None, status |-> 0]

Init ==
    /\ db = [c \in Collections |-> <<>>]
    /\ counter = 0
    /\ req = Request("NONE", "", None, None)
    /\ resp = Response(0, None, EmptyMap)
    /\ issued = [c \in Collections |-> {}]
    /\ uploaded = {}
    /\ call = NoCall

Next ==
    \/ counter < MaxOid /\ \E b \in EventCreateBodies : create_event(b)
    \/ get_events
    \/ \E id \in PathIds, b \in EventBodies : update_event(id, b)
    \/ \E id \in PathIds : delete_event(id)
    \/ counter < MaxOid /\ \E b \in AttendeeCreateBodies : create_attendee(b)
    \/ get_attendees
    \/ \E id \in PathIds, b \in AttendeeBodies : update_attendee(id, b)
    \/ \E id \in PathIds : delete_attendee(id)
    \/ counter < MaxOid /\ \E b \in VenueCreateBodies : create_venue(b)
    \/ get_venues
    \/ \E id \in PathIds, b \in VenueBodies : update_venue(id, b)
    \/ \E id \in PathIds : delete_venue(id)
    \/ counter < MaxOid /\ \E b \in BookingCreateBodies : create_booking(b)
    \/ get_bookings
    \/ \E id \in PathIds, b \in BookingBodies : update_booking(id, b)
    \/ \E id \in PathIds : delete_booking(id)
    \/ counter < MaxOid /\ \E o \in OwnerIds : upload_event_poster(o, F1)
    \/ \E id \in PathIds : download_event_poster(id)
    \/ counter < MaxOid /\ upload_promo_video(IdStr(1), F2)
    \/ \E id \in PathIds : download_promo_video(id)
    \/ counter < MaxOid /\ upload_venue_photo(IdStr(1), F1)
    \/ \E id \in PathIds : download_venue_photo(id)

Spec == Init /\ [][Next]_vars

-----------------------------------------------------------------------------
(* The list endpoint over a collection larger than its fetch cap *)

\* Events created per run
MaxListed == 101

\* Identifiers a client deletes
ListDeleteIds == {IdStr(1), IdStr(LIST_CAP)}

NextList ==
    \/ counter < MaxListed /\ create_event(Dict(E1))
    \/ get_events
    \/ \E id \in ListDeleteIds : delete_event(id)

SpecList == Init /\ [][NextList]_vars

-----------------------------------------------------------------------------
(* Direct calls of the helper functions *)

\* Elements per list
MaxLen == 2

Leaves == {NewObjectId(1), Str(<<"a">>), Str(<<"b", "$">>), Num(1)}

Keys == {"_id", "name"}

DictsOver(S) == {Dict(f) : f \in UNION {[D -> S] : D \in SUBSET Keys}}

ListsOver(S) == {List(q) : q \in UNION {[1..n -> S] : n \in 0..MaxLen}}

\* Scalars, flat documents and flat lists
Inner == Leaves \cup DictsOver(Leaves) \cup ListsOver(Leaves)

\* A value, a document with nested values, a list of flat documents
FnValues == Inner \cup DictsOver(Inner) \cup ListsOver(DictsOver(Leaves))

AllowedSets == {{}, {"name"}, {"_id", "name"}}

InitFn ==
    /\ db = [c \in Collections |-> <<>>]
    /\ counter = 0
    /\ req = Request("NONE", "", None, None)
    /\ resp = Response(0, None, EmptyMap)
    /\ issued = [c \in Collections |-> {}]
    /\ uploaded = {}
    /\ \E v \in FnValues, a \in AllowedSets :
          call = [fn |-> "none", pc |-> "ready", input |-> v, arg |-> v, allowed |-> a,
                  ret |-> None, status |-> 0]

call_clean_input ==
    /\ call.pc = "ready"
    /\ call.arg.t = "dict"
    /\ LET c == clean_input(call.arg)
       IN  call' = [call EXCEPT !.fn = "clean_input", !.pc = "done", !.arg = c.data,
                                !.status = c.status]
    /\ UNCHANGED <<db, counter, req, resp, issued, uploaded>>

call_safe_update_fields ==
    /\ call.pc = "ready"
    /\ call.arg.t = "dict"
    /\ LET s == safe_update_fields(call.arg, call.allowed)
       IN  call' = [call EXCEPT !.fn = "safe_update_fields", !.pc = "done", !.arg = s.data,
                                !.status = s.status,
                                !.ret = IF s.status = 0 THEN s.ret ELSE None]
    /\ UNCHANGED <<db, counter, req, resp, issued, uploaded>>

call_string_ids ==
    /\ call.pc = "ready"
    /\ call' = [call EXCEPT !.fn = "string_ids", !.pc = "done", !.ret = string_ids(call.arg)]
    /\ UNCHANGED <<db, counter, req, resp, issued, uploaded>>

NextFn == call_clean_input \/ call_safe_update_fields \/ call_string_ids

SpecFn == InitFn /\ [][NextFn]_vars

-----------------------------------------------------------------------------
(* Properties of the helper functions (SpecFn) *)

Returned(fn) == call.fn = fn /\ call.pc = "done"

\* C2: when safe_update_fields(m, allowed) returns r, the keys of r are exactly
\* the keys of m that are in allowed, r[k] = m[k] for each of them, and m is
\* as it was before the call.
C2_FilterKeepsAllowedOnly ==
    (Returned("safe_update_fields") /\ call.status = 0) =>
        /\ DOMAIN call.ret.v \subseteq call.allowed
        /\ DOMAIN call.ret.v = DOMAIN call.input.v \cap call.allowed
        /\ \A k \in DOMAIN call.input.v \cap call.allowed : call.ret.v[k] = call.input.v[k]
        /\ call.arg = call.input

\* A call that returned, dropped a key and kept another
C2_Witness ==
    /\ Returned("safe_update_fields") /\ call.status = 0
    /\ DOMAIN call.input.v = {"_id", "name"}
    /\ DOMAIN call.ret.v = {"name"}

Rejectable(val) == val.t = "dict" \/ (val.t = "str" /\ \E i \in DOMAIN val.v : val.v[i] = "$")

\* C3: clean_input fails with 400 on every mapping that has a top-level value
\* that is a mapping or a string with '$' at any position, and the mapping it
\* was given is as it was before the call, whether it failed or not.
C3_SanitizerRejects ==
    Returned("clean_input") =>
        /\ (\E k \in DOMAIN call.input.v : Rejectable(call.input.v[k])) => call.status = 400
        /\ call.arg = call.input

\* A rejection of a string whose '$' is not its first character, with no
\* nested mapping beside it
C3_Witness ==
    /\ Returned("clean_input") /\ call.status = 400
    /\ \E k \in DOMAIN call.input.v : call.input.v[k] = Str(<<"b", "$">>)
    /\ \A k \in DOMAIN call.input.v : call.input.v[k].t # "dict"

\* Occurrences of an internal identifier in a value, at any depth
RECURSIVE CountOids(_)
CountOids(val) ==
    LET RECURSIVE Sum(_, _)
        Sum(f, D) == IF D = {} THEN 0
                     ELSE LET x == CHOOSE x \in D : TRUE
                          IN  CountOids(f[x]) + Sum(f, D \ {x})
    IN  IF val.t = "oid" THEN 1
        ELSE IF val.t \in {"dict", "list"} THEN Sum(val.v, DOMAIN val.v)
        ELSE 0

\* Occurrences of an identifier's encoded string in a value, at any depth
RECURSIVE CountEncoded(_, _)
CountEncoded(val, oid) ==
    LET RECURSIVE Sum(_, _)
        Sum(f, D) == IF D = {} THEN 0
                     ELSE LET x == CHOOSE x \in D : TRUE
                          IN  CountEncoded(f[x], oid) + Sum(f, D \ {x})
    IN  IF val = StrOfOid(oid) THEN 1
        ELSE IF val.t \in {"dict", "list"} THEN Sum(val.v, DOMAIN val.v)
        ELSE 0

\* The value with every identifier replaced by its encoded string
RECURSIVE Stringified(_)
Stringified(val) ==
    IF val.t = "oid" THEN StrOfOid(val)
    ELSE IF val.t = "dict" THEN Dict([k \in DOMAIN val.v |-> Stringified(val.v[k])])
    ELSE IF val.t = "list" THEN List([i \in DOMAIN val.v |-> Stringified(val.v[i])])
    ELSE val

\* C4: string_ids(v) holds no internal identifier, has each of the N
\* identifiers of v replaced by its encoded string and is otherwise v; v is
\* as it was before the call.
C4_StringIdsReplacesEveryId ==
    Returned("string_ids") =>
        /\ CountOids(call.ret) = 0
        /\ CountEncoded(call.ret, NewObjectId(1)) = CountOids(call.input)
        /\ call.ret = Stringified(call.input)
        /\ call.arg = call.input

-----------------------------------------------------------------------------
(* Properties of the service (Spec) *)

EntityRoutes == {"events", "attendees", "venues", "bookings"}

ModelOf(route) ==
    CASE route = "events" -> Event
      [] route = "attendees" -> Attendee
      [] route = "venues" -> Venue
      [] route = "bookings" -> Booking

AllowedOf(route) ==
    CASE route = "events" -> EVENT_ALLOWED
      [] route = "attendees" -> ATTENDEE_ALLOWED
      [] route = "venues" -> VENUE_ALLOWED
      [] route = "bookings" -> BOOKING_ALLOWED

\* The positions in a collection of the records with an identifier
Holding(coll, oid) == {i \in 1..Len(coll) : coll[i].v._id = oid}

\* The body has all the fields its model requires
SchemaValid(route, body) == ModelOf(route).required \subseteq DOMAIN body.v

\* Some string field of the body, among the given ones, contains '$'
DollarIn(body, fields) ==
    \E k \in DOMAIN body.v \cap fields :
        body.v[k].t = "str" /\ \E i \in DOMAIN body.v[k].v : body.v[k].v[i] = "$"

IsError(r) == r.status >= 400

Category(route) ==
    CASE route = "download_event_poster" -> "event_poster"
      [] route = "download_promo_video" -> "promo_video"
      [] route = "download_venue_photo" -> "venue_photo"

DownloadRoutes == {"download_event_poster", "download_promo_video", "download_venue_photo"}

\* The uploads a download request names: same identifier, the route's category
Named(r) ==
    {u \in uploaded : /\ is_valid(r.id)
                      /\ u.id = StrOfOid(FromHex(r.id))
                      /\ u.media_type = Category(r.route)}

\* C5: a download succeeds exactly for a well-formed id of an uploaded record
\* of the endpoint's category, a well-formed id of any other or of no record
\* is answered 404, and a success returns the payload, content type and
\* filename given at the upload of that record.
C5_DownloadByCategory ==
    (req.method = "GET" /\ req.route \in DownloadRoutes) =>
        /\ resp.status = 200 <=> Named(req) # {}
        /\ (is_valid(req.id) /\ Named(req) = {}) => resp.status = 404
        /\ resp.status = 200 =>
              \A u \in Named(req) :
                  /\ resp.body = u.file.content
                  /\ resp.headers.content_type = u.file.content_type
                  /\ resp.headers.content_disposition =
                         Str(<<"attachment; filename=">> \o u.file.filename.v)

\* The poster endpoint asked for a stored promo video, beside a stored poster
C5_Witness ==
    /\ req.method = "GET" /\ req.route = "download_event_poster" /\ resp.status = 404
    /\ \E u \in uploaded : u.id = req.id /\ u.media_type = "promo_video"
    /\ \E u \in uploaded : u.media_type = "event_poster"

\* The sanitizer accepts the fields of the body that the model declares
Accepted(route, body) ==
    /\ SchemaValid(route, body)
    /\ \A k \in DOMAIN body.v \cap ModelOf(route).fields : ~Rejectable(body.v[k])

\* C6: with a well-formed id, DELETE is answered 404 exactly when no record
\* of the collection has the id and otherwise removes that one record; UPDATE
\* with an accepted body is answered 404 exactly when no record has the id,
\* and a 404 leaves the store unchanged.
C6_NotFoundIffAbsent ==
    [][ (req'.route \in EntityRoutes /\ is_valid(req'.id)) =>
          LET coll == db[req'.route]
              at == Holding(coll, FromHex(req'.id))
          IN  /\ req'.method = "DELETE" =>
                    /\ resp'.status = 404 <=> at = {}
                    /\ at = {} => db' = db
                    /\ at # {} =>
                          /\ resp'.status = 200
                          /\ \E i \in at : db' = [db EXCEPT ![req'.route] = RemoveAt(coll, i)]
              /\ (req'.method = "PUT" /\ Accepted(req'.route, req'.body)) =>
                    /\ resp'.status = 404 <=> at = {}
                    /\ resp'.status = 404 => db' = db
                    /\ resp'.status \in {200, 404} ]_vars

\* An accepted update of an absent id, answered 404, on a collection that
\* holds a record
C6_Witness ==
    /\ req.method = "PUT" /\ resp.status = 404
    /\ is_valid(req.id) /\ Accepted(req.route, req.body)
    /\ Len(db[req.route]) > 0

IdsOf(coll) == [i \in 1..Len(coll) |-> IF "_id" \in DOMAIN coll[i].v THEN coll[i].v._id ELSE None]

\* Each record of the collection has an identifier of the store's type, and
\* no two have the same
C8_Identified(coll) ==
    /\ \A i \in 1..Len(coll) : IdsOf(coll)[i].t = "oid"
    /\ \A i, j \in 1..Len(coll) : i # j => IdsOf(coll)[i] # IdsOf(coll)[j]

C8_IdsStep ==
    /\ req'.method = "PUT" => "_id" \notin AllowedOf(req'.route)
    /\ \A c \in Collections :
          \/ db'[c] = db[c]
          \/ LET old == IdsOf(db[c])
                 new == IdsOf(db'[c])
             IN  /\ C8_Identified(db'[c])
                 /\ \/ new = old
                    \/ \E i \in 1..Len(old) : new = RemoveAt(old, i)
                    \/ new = Append(old, NewObjectId(counter'))
                 /\ req'.method = "PUT" => new = old

\* C8: every stored record has a store-assigned identifier that is unique in
\* its collection (the store starts empty and every step that changes a
\* collection leaves it so), and a step changes the identifiers of a
\* collection only by appending a new one (a create, an upload) or removing
\* one (a delete): an update, whatever its body, leaves every identifier as it
\* is, _id being in no allowlist.
C8_IdentifiersUniqueImmutable == [][C8_IdsStep]_vars

\* A successful update whose body carried an _id field, with two records stored
C8_Witness ==
    /\ req.method = "PUT" /\ req.route = "bookings" /\ resp.status = 200
    /\ "_id" \in DOMAIN req.body.v
    /\ Len(db.bookings) = 2

\* C9: a successful update replaces only the fields that are in the
\* allowlist and were submitted in the request; every other field of the
\* stored record keeps its value (an attendee update without a phone leaves
\* the stored phone as it is).
C9_UpdateKeepsUnsubmittedFields ==
    [][ (req'.method = "PUT" /\ resp'.status = 200) =>
          \A i \in Holding(db[req'.route], FromHex(req'.id)) :
              \A k \in DOMAIN db[req'.route][i].v :
                  (k \notin AllowedOf(req'.route) \/ k \notin DOMAIN req'.body.v)
                     => db'[req'.route][i].v[k] = db[req'.route][i].v[k] ]_vars

\* C10: a delete removes at most the one record with the identifier from the
\* entity's own collection and leaves every other collection unchanged.
C10_DeleteDoesNotCascade ==
    [][ (req'.method = "DELETE" /\ req'.route \in EntityRoutes) =>
          /\ \A c \in Collections \ {req'.route} : db'[c] = db[c]
          /\ \/ db'[req'.route] = db[req'.route]
             \/ \E i \in Holding(db[req'.route], FromHex(req'.id)) :
                    db'[req'.route] = RemoveAt(db[req'.route], i) ]_vars

\* An event was deleted and a booking that refers to it is still stored
C10_Witness ==
    /\ req.method = "DELETE" /\ req.route = "events" /\ resp.status = 200
    /\ \E i \in 1..Len(db.bookings) : db.bookings[i].v.event_id = req.id

-----------------------------------------------------------------------------
(* Properties of the list endpoint (SpecList) *)

Listed(s) == \E i \in DOMAIN resp.body.v : resp.body.v[i].v._id = s

\* C7 as stated: GET /events lists, in string form, the identifier of every
\* event that a create returned and no delete has removed, however many
\* events are stored.
C7_ListIncludesCreated ==
    (req.method = "GET" /\ req.route = "events") =>
        \A s \in issued.events : Listed(s)

\* C7 as amended: the same, when the collection holds at most LIST_CAP
\* records at the time of the GET.
C7_ListIncludesCreatedWithinCap ==
    (req.method = "GET" /\ req.route = "events" /\ Len(db.events) <= LIST_CAP) =>
        \A s \in issued.events : Listed(s)

\* A list of exactly LIST_CAP events, one more having been created and one
\* deleted before
C7_Witness ==
    /\ req.method = "GET" /\ req.route = "events"
    /\ Len(db.events) = LIST_CAP /\ counter > LIST_CAP
    /\ Listed(IdStr(counter))

====
